---- MODULE Spec2Model ----
(***************************************************************************)
(* A model of reach_ros' MoveIt IK solvers (src/ik/moveit_ik_solver.cpp):  *)
(* MoveItIKSolver, DiscretizedMoveItIKSolver and their two factories.      *)
(*                                                                         *)
(* Angles are integers in microradians (1 unit = 1.0e-6 rad), distances    *)
(* are integers in millimetres.  The MoveIt collaborators (the numerical   *)
(* IK routine, the collision and distance queries) are deterministic       *)
(* oracles over a small fixed world.                                       *)
(***************************************************************************)
EXTENDS Integers, Sequences, FiniteSets, TLC

VARIABLES
  solvers,            \* the solver objects alive in the process, in creation order
  n_discretizations,  \* the function-local static of DiscretizedMoveItIKSolver::solveIK
  last,               \* what the most recent call did (its inputs, result and trace)
  memo                \* one earlier solveIK call and its result, kept for comparison

vars == <<solvers, n_discretizations, last, memo>>

(***************************************************************************)
(* Bounds and program constants                                            *)
(***************************************************************************)
MaxSolvers == 1

\* the largest n for which vector::reserve(n) still gets its memory
ReserveLimit == 8

M_PI == 3141592

Tolerance == 1

INT_MAX == 2147483647

INT_MIN == (-INT_MAX) - 1

TwoPi == 2 * M_PI

(***************************************************************************)
(* <algorithm>, <cmath> and the file-local clamp                           *)
(***************************************************************************)
std_min(a, b) == IF b < a THEN b ELSE a

std_max(a, b) == IF a < b THEN b ELSE a

std_abs(x) == IF x < 0 THEN -x ELSE x

clamp(val, low, high) == std_max(low, std_min(val, high))

(***************************************************************************)
(* The robot model and the world the collaborators answer about            *)
(***************************************************************************)
\* the planning groups the robot model defines
PlanningGroups == {"manipulator"}

\* jmg_->getActiveJointModelNames()
ActiveJointModelNames == <<"j1", "j2">>

\* jmg_->getSolverInstance()->getBaseFrame()
BaseFrame == "base_link"

COLLISION_OBJECT_NAME == "reach_object"

NoObject == "none"

EmptyScene == [object |-> NoObject, touch_links |-> {}]

NoSolver ==
  [kind |-> "none", planning_group |-> "", distance_threshold |-> 0, dt_ |-> 0,
   scene |-> EmptyScene]

(***************************************************************************)
(* Poses, seeds and the MoveIt collaborators                               *)
(***************************************************************************)
\* A pose is a position and a rotation about its own Z axis.
Pose(pos, yaw) == [pos |-> pos, yaw |-> yaw]

\* target * Eigen::AngleAxisd(angle, Eigen::Vector3d::UnitZ())
Rotate(target, angle) == [target EXCEPT !.yaw = (target.yaw + angle) % TwoPi]

\* the 30-degree sector a rotation falls in (to the nearest sector)
Sector(yaw) == (((yaw % TwoPi) + (M_PI \div 12)) \div (M_PI \div 6)) % 12

\* utils::transcribeInputMap: the seed's values for the chain's joints, in
\* chain order; names that are not joints of the chain are ignored
transcribeInputMap(input, joint_names) ==
  [k \in 1..Len(joint_names) |-> input[joint_names[k]]]

\* The rotations about Z at which the arm reaches each position at all.
ReachableSectors(pos) == IF pos = "shelf" THEN {0, 6} ELSE {0, 4, 8, 10}

\* The numerical IK routine raises for this pose (a failing solver plugin).
IKRoutineThrows(target) == target.pos = "fault" /\ Sector(target.yaw) = 6

\* The joint configurations the numerical IK routine proposes, in the order
\* it proposes them: the elbow branch nearest the seed first.
IKCandidates(target, seed_subset) ==
  IF Sector(target.yaw) \notin ReachableSectors(target.pos)
  THEN <<>>
  ELSE LET s == Sector(target.yaw)
           near == IF seed_subset[2] >= 1 THEN 1 ELSE 0
       IN  << <<s, near>>, <<s, 1 - near>> >>

\* planning_scene::PlanningScene::isStateColliding(state, group)
isStateColliding(scene, q) ==
  /\ scene.object = BaseFrame
  /\ q[2] = 0
  /\ "tool" \notin scene.touch_links

\* planning_scene::PlanningScene::distanceToCollision(state, acm), in mm
distanceToCollision(scene, q) ==
  IF scene.object = NoObject THEN 100
  ELSE IF scene.object = BaseFrame
       THEN IF q[2] = 0
            THEN (IF "tool" \in scene.touch_links THEN 100 ELSE 0)
            ELSE 50
       ELSE IF q[2] = 0 THEN 20 ELSE 40

(***************************************************************************)
(* MoveItIKSolver                                                          *)
(***************************************************************************)
isIKSolutionValid_strict(self, ik_solution) ==
  LET colliding == isStateColliding(self.scene, ik_solution)
      too_close == distanceToCollision(self.scene, ik_solution) <= self.distance_threshold
  IN  (~colliding /\ ~too_close)

isIKSolutionValid(self, ik_solution) ==
  LET colliding == isStateColliding(self.scene, ik_solution)
      too_close == distanceToCollision(self.scene, ik_solution) < self.distance_threshold
  IN  (~colliding /\ ~too_close)

\* One evaluation of the validity callback, as the IK routine saw it.
Check(self, q) ==
  [q |-> q,
   colliding |-> isStateColliding(self.scene, q),
   distance |-> distanceToCollision(self.scene, q),
   valid |-> isIKSolutionValid(self, q)]

\* moveit::core::RobotState::setFromIK(jmg, target, 0.0, callback): the
\* first proposed configuration the callback accepts, or failure.
setFromIK(self, target, seed_subset) ==
  IF IKRoutineThrows(target)
  THEN [outcome |-> "thrown", solution |-> <<>>, checks |-> <<>>]
  ELSE LET cands == IKCandidates(target, seed_subset)
           ok == {k \in 1..Len(cands) : Check(self, cands[k]).valid}
           first == IF ok = {} THEN 0 ELSE CHOOSE k \in ok : \A m \in ok : k <= m
           tried == IF first = 0 THEN Len(cands) ELSE first
           checks == [k \in 1..tried |-> Check(self, cands[k])]
       IN  IF first = 0
           THEN [outcome |-> "rejected", solution |-> <<>>, checks |-> checks]
           ELSE [outcome |-> "accepted", solution |-> cands[first], checks |-> checks]

\* The trace of one base attempt.
Attempt(i, target, seed, ik) ==
  [i |-> i, target |-> target, seed |-> seed, outcome |-> ik.outcome,
   solution |-> ik.solution, checks |-> ik.checks]

MoveItIKSolver_solveIK_seedOnFailure(self, target, seed) ==
  LET seed_subset == transcribeInputMap(seed, ActiveJointModelNames)
      ik == setFromIK(self, target, seed_subset)
  IN  [thrown |-> ik.outcome = "thrown",
       ret |-> IF ik.outcome = "accepted" THEN <<ik.solution>>
               ELSE IF ik.outcome = "rejected" THEN <<seed_subset>> ELSE <<>>,
       attempt |-> Attempt(0, target, seed, ik),
       self |-> self]

MoveItIKSolver_solveIK_allowsTouch(self, target, seed) ==
  LET seed_subset == transcribeInputMap(seed, ActiveJointModelNames)
      ik == setFromIK(self, target, seed_subset)
  IN  [thrown |-> ik.outcome = "thrown",
       ret |-> IF ik.outcome = "accepted" THEN <<ik.solution>> ELSE <<>>,
       attempt |-> Attempt(0, target, seed, ik),
       self |-> IF ik.outcome = "rejected"
                THEN [self EXCEPT !.scene.touch_links = @ \cup {"tool"}]
                ELSE self]

\* MoveItIKSolver::solveIK: what the call returns (or that it raised), the
\* trace of its one attempt, and the solver object after the call.
MoveItIKSolver_solveIK(self, target, seed) ==
  LET seed_subset == transcribeInputMap(seed, ActiveJointModelNames)
      ik == setFromIK(self, target, seed_subset)
  IN  [thrown |-> ik.outcome = "thrown",
       ret |-> IF ik.outcome = "accepted" THEN <<ik.solution>> ELSE <<>>,
       attempt |-> Attempt(0, target, seed, ik),
       self |-> self]

\* MoveItIKSolver::getJointNames
getJointNames(self) == ActiveJointModelNames

\* MoveItIKSolver::getKinematicBaseFrame
getKinematicBaseFrame(self) == BaseFrame

\* MoveItIKSolver::addCollisionMesh: the object named COLLISION_OBJECT_NAME
\* is added (or replaced); raises when the scene refuses the object.
addCollisionMesh(self, collision_mesh_filename, collision_mesh_frame) ==
  IF collision_mesh_filename # "part.stl"
  THEN [thrown |-> TRUE, self |-> self]
  ELSE [thrown |-> FALSE, self |-> [self EXCEPT !.scene.object = collision_mesh_frame]]

\* MoveItIKSolver::setTouchLinks
setTouchLinks(self, touch_links) ==
  [self EXCEPT !.scene.touch_links = @ \cup touch_links]

MoveItIKSolver_ctor_noGroupCheck(planning_group, dist_threshold) ==
  [thrown |-> FALSE,
   self |-> [kind |-> "MoveItIKSolver", planning_group |-> planning_group,
             distance_threshold |-> dist_threshold, dt_ |-> 0,
             scene |-> EmptyScene]]

\* MoveItIKSolver::MoveItIKSolver (the model pointer is non-null here)
MoveItIKSolver_ctor(planning_group, dist_threshold) ==
  IF planning_group \notin PlanningGroups
  THEN [thrown |-> TRUE, self |-> NoSolver]
  ELSE [thrown |-> FALSE,
        self |-> [kind |-> "MoveItIKSolver", planning_group |-> planning_group,
                  distance_threshold |-> dist_threshold, dt_ |-> 0,
                  scene |-> EmptyScene]]

\* DiscretizedMoveItIKSolver::DiscretizedMoveItIKSolver
DiscretizedMoveItIKSolver_ctor(planning_group, dist_threshold, dt) ==
  LET base == MoveItIKSolver_ctor(planning_group, dist_threshold)
  IN  IF base.thrown THEN base
      ELSE [thrown |-> FALSE,
            self |-> [base.self EXCEPT !.kind = "DiscretizedMoveItIKSolver", !.dt_ = dt]]

(***************************************************************************)
(* DiscretizedMoveItIKSolver                                               *)
(***************************************************************************)
\* int((2.0 * M_PI) / dt_): the quotient is +inf for dt_ = 0 and its
\* conversion to int is undefined; builds produce INT_MIN or INT_MAX.
Discretizations(dt) == IF dt = 0 THEN {INT_MIN, INT_MAX} ELSE {TwoPi \div dt}

\* The values the static can hold in this call: it is initialised by the
\* first call in the process that reaches its declaration, and never again.
StaticInit(static, dt) ==
  IF static.init THEN {static.value} ELSE Discretizations(dt)

\* solutions.reserve(n): a negative n converts to a size beyond max_size
\* (std::length_error), a huge one exhausts memory (std::bad_alloc).
ReserveThrows(n) == n < 0 \/ n > ReserveLimit

\* The for loop of DiscretizedMoveItIKSolver::solveIK from index i on.
RECURSIVE DiscretizedLoop(_, _, _, _, _, _)
DiscretizedLoop(self, target, seed, n, i, acc) ==
  IF ~(i < n) THEN acc
  ELSE LET discretized_target == Rotate(target, i * self.dt_)
           tmp_sols == MoveItIKSolver_solveIK(self, discretized_target, seed)
           attempts == Append(acc.attempts, [tmp_sols.attempt EXCEPT !.i = i])
       IN  IF tmp_sols.thrown
           THEN [thrown |-> TRUE, ret |-> <<>>, attempts |-> attempts,
                 self |-> tmp_sols.self]
           ELSE DiscretizedLoop(tmp_sols.self, target, seed, n, i + 1,
                  [thrown |-> FALSE,
                   ret |-> IF tmp_sols.ret # <<>>
                           THEN Append(acc.ret, Head(tmp_sols.ret))
                           ELSE acc.ret,
                   attempts |-> attempts,
                   self |-> tmp_sols.self])

\* DiscretizedMoveItIKSolver::solveIK with the static holding n.
DiscretizedMoveItIKSolver_solveIK(self, target, seed, n) ==
  IF ReserveThrows(n)
  THEN [thrown |-> TRUE, ret |-> <<>>, attempts |-> <<>>, self |-> self]
  ELSE DiscretizedLoop(self, target, seed, n, 0,
         [thrown |-> FALSE, ret |-> <<>>, attempts |-> <<>>, self |-> self])

(***************************************************************************)
(* The factories                                                           *)
(***************************************************************************)
\* config[key] is defined
Has(config, key) == key \in config.keys

Config(keys, planning_group, distance_threshold, filename, frame, key, angle) ==
  [keys |-> keys,
   planning_group |-> planning_group,
   distance_threshold |-> distance_threshold,
   collision_mesh_filename |-> filename,
   collision_mesh_frame |-> frame,
   collision_mesh_key |-> key,
   touch_links |-> {"tool"},
   discretization_angle |-> angle]

\* "Optionally add a collision mesh" and "Optionally add touch links": the
\* same block closes both factories' create.
ApplyOptions(ik_solver, config) ==
  LET collision_mesh_filename_key == "collision_mesh_filename"
      collision_mesh_frame_key == "collision_mesh_key"
      touch_links_key == "touch_links"
      collision_mesh_frame ==
        IF Has(config, collision_mesh_frame_key)
        THEN config[collision_mesh_frame_key]
        ELSE getKinematicBaseFrame(ik_solver)
      meshed ==
        IF Has(config, collision_mesh_filename_key)
        THEN addCollisionMesh(ik_solver, config[collision_mesh_filename_key],
                              collision_mesh_frame)
        ELSE [thrown |-> FALSE, self |-> ik_solver]
      applied1 == IF Has(config, collision_mesh_filename_key)
                  THEN <<"addCollisionMesh">> ELSE <<>>
  IN  IF meshed.thrown
      THEN [thrown |-> "mesh", self |-> NoSolver, applied |-> applied1]
      ELSE IF Has(config, touch_links_key)
           THEN [thrown |-> "none",
                 self |-> setTouchLinks(meshed.self, config[touch_links_key]),
                 applied |-> Append(applied1, "setTouchLinks")]
           ELSE [thrown |-> "none", self |-> meshed.self, applied |-> applied1]

\* MoveItIKSolverFactory::create; model says whether getSharedRobotModel
\* returned a robot model.
MoveItIKSolverFactory_create(config, model) ==
  IF ~model
  THEN [thrown |-> "model", self |-> NoSolver, applied |-> <<>>, warned |-> FALSE]
  ELSE LET ik_solver == MoveItIKSolver_ctor(config.planning_group,
                                            config.distance_threshold)
       IN  IF ik_solver.thrown
           THEN [thrown |-> "group", self |-> NoSolver, applied |-> <<>>,
                 warned |-> FALSE]
           ELSE LET r == ApplyOptions(ik_solver.self, config)
                IN  [thrown |-> r.thrown, self |-> r.self, applied |-> r.applied,
                     warned |-> FALSE]

\* DiscretizedMoveItIKSolverFactory::create
DiscretizedMoveItIKSolverFactory_create(config, model) ==
  IF ~model
  THEN [thrown |-> "model", self |-> NoSolver, applied |-> <<>>, warned |-> FALSE]
  ELSE LET dt == std_abs(config.discretization_angle)
           clamped_dt == clamp(dt, 0, M_PI)
           warned == std_abs(dt - clamped_dt) > Tolerance
           ik_solver == DiscretizedMoveItIKSolver_ctor(config.planning_group,
                          config.distance_threshold, clamped_dt)
       IN  IF ik_solver.thrown
           THEN [thrown |-> "group", self |-> NoSolver, applied |-> <<>>,
                 warned |-> warned]
           ELSE LET r == ApplyOptions(ik_solver.self, config)
                IN  [thrown |-> r.thrown, self |-> r.self, applied |-> r.applied,
                     warned |-> warned]

(***************************************************************************)
(* Inputs                                                                  *)
(***************************************************************************)
OptionalKeys ==
  {"collision_mesh_filename", "collision_mesh_frame", "collision_mesh_key",
   "touch_links"}

\* raw discretization_angle values: negative, zero, in range, just above pi
\* (within and beyond the tolerance) and far above pi
DiscretizationAngles ==
  {-TwoPi, -(M_PI \div 2), 0, M_PI \div 3, M_PI \div 2, M_PI,
   M_PI + Tolerance, M_PI + 2 * Tolerance, TwoPi}

MeshFiles == {"part.stl", "corrupt.stl"}

ConfigsWith(angles) ==
  {Config(keys, pg, thr, file, "table", "fixture", angle) :
     keys \in SUBSET OptionalKeys, pg \in {"manipulator", "bogus"},
     thr \in {0, 50}, file \in MeshFiles, angle \in angles}

\* every configuration, for the factories on their own
MoveItFactoryConfigs == ConfigsWith({0})

DiscretizedFactoryConfigs == ConfigsWith(DiscretizationAngles)

\* the configurations of the solvers that are then called
MoveItConfigs ==
  {Config({"collision_mesh_filename"}, "manipulator", 0, "part.stl",
          "table", "fixture", 0),
   Config({"collision_mesh_filename", "touch_links"}, "manipulator", 50,
          "part.stl", "table", "fixture", 0),
   Config({"collision_mesh_filename", "collision_mesh_key"}, "manipulator", 50,
          "part.stl", "table", "fixture", 0),
   Config({}, "bogus", 0, "part.stl", "table", "fixture", 0)}

DiscretizedConfigs ==
  {Config({}, "manipulator", 0, "part.stl", "table", "fixture", M_PI \div 3),
   Config({"collision_mesh_filename"}, "manipulator", 50, "part.stl",
          "table", "fixture", TwoPi),
   Config({}, "manipulator", 0, "part.stl", "table", "fixture", 0)}

Targets == {Pose("shelf", 0), Pose("fault", M_PI \div 3), Pose("fault", M_PI)}

Seeds ==
  {[j1 |-> 0, j2 |-> 0, rail |-> 5], [j1 |-> 1, j2 |-> 1, rail |-> 5]}

(***************************************************************************)
(* The state machine                                                       *)
(***************************************************************************)
NoConfig == Config({}, "", 0, "", "", "", 0)

NoCall ==
  [op |-> "none", kind |-> "none", inst |-> 0, config |-> NoConfig,
   model |-> TRUE, target |-> Pose("", 0),
   seed |-> [j1 |-> 0, j2 |-> 0, rail |-> 0], thrown |-> "none",
   warned |-> FALSE, ret |-> <<>>, attempts |-> <<>>, applied |-> <<>>,
   before |-> <<>>]

NoMemo ==
  [set |-> FALSE, again |-> FALSE, inst |-> 0, target |-> Pose("", 0),
   seed |-> [j1 |-> 0, j2 |-> 0, rail |-> 0], thrown |-> "none", ret |-> <<>>]

MemoOf(call) ==
  [set |-> TRUE, again |-> FALSE, inst |-> call.inst, target |-> call.target,
   seed |-> call.seed, thrown |-> call.thrown, ret |-> call.ret]

\* call repeats the remembered call: same solver, target and seed
SameCall(m, call) ==
  m.set /\ m.inst = call.inst /\ m.target = call.target /\ m.seed = call.seed

Init ==
  /\ solvers = <<>>
  /\ n_discretizations = [init |-> FALSE, value |-> 0]
  /\ last = NoCall
  /\ memo = NoMemo

\* A caller creates a solver through a factory and keeps what it returns.
Created(kind, config, model, r) ==
  /\ solvers' = IF r.thrown = "none" THEN Append(solvers, r.self) ELSE solvers
  /\ last' = [NoCall EXCEPT !.op = "create", !.kind = kind, !.config = config,
                            !.model = model, !.thrown = r.thrown,
                            !.warned = r.warned, !.applied = r.applied,
                            !.before = solvers]
  /\ UNCHANGED <<n_discretizations, memo>>

CreateMoveItIKSolver(config, model) ==
  /\ Len(solvers) < MaxSolvers
  /\ Created("MoveItIKSolver", config, model,
             MoveItIKSolverFactory_create(config, model))

CreateDiscretizedMoveItIKSolver(config, model) ==
  /\ Len(solvers) < MaxSolvers
  /\ Created("DiscretizedMoveItIKSolver", config, model,
             DiscretizedMoveItIKSolverFactory_create(config, model))

\* A caller's solveIK call returned r (or raised).
Solved(inst, target, seed, r, attempts) ==
  LET call == [NoCall EXCEPT !.op = "solveIK", !.kind = solvers[inst].kind,
                             !.inst = inst, !.target = target, !.seed = seed,
                             !.thrown = IF r.thrown THEN "solve" ELSE "none",
                             !.ret = r.ret, !.attempts = attempts,
                             !.before = solvers]
  IN  /\ solvers' = [solvers EXCEPT ![inst] = r.self]
      /\ last' = call
      /\ memo' \in IF ~memo.set THEN {memo, MemoOf(call)}
                   ELSE IF SameCall(memo, call) THEN {[memo EXCEPT !.again = TRUE]}
                   ELSE {memo}

\* solveIK on a MoveItIKSolver
SolveIK(inst, target, seed) ==
  /\ inst \in 1..Len(solvers)
  /\ solvers[inst].kind = "MoveItIKSolver"
  /\ LET r == MoveItIKSolver_solveIK(solvers[inst], target, seed)
     IN  Solved(inst, target, seed, r, <<r.attempt>>)
  /\ UNCHANGED n_discretizations

\* solveIK on a DiscretizedMoveItIKSolver
DiscretizedSolveIK(inst, target, seed) ==
  /\ inst \in 1..Len(solvers)
  /\ solvers[inst].kind = "DiscretizedMoveItIKSolver"
  /\ \E n \in StaticInit(n_discretizations, solvers[inst].dt_) :
       /\ n_discretizations' = [init |-> TRUE, value |-> n]
       /\ LET r == DiscretizedMoveItIKSolver_solveIK(solvers[inst], target, seed, n)
          IN  Solved(inst, target, seed, r, r.attempts)

\* The caller releases its pointer to a solver, which is then destroyed; the
\* static of solveIK lives on.
ReleaseSolver(inst) ==
  /\ inst \in 1..Len(solvers)
  /\ solvers' = [k \in 1..(Len(solvers) - 1) |->
                  IF k < inst THEN solvers[k] ELSE solvers[k + 1]]
  /\ last' = [NoCall EXCEPT !.op = "release", !.kind = solvers[inst].kind,
                            !.inst = inst, !.before = solvers]
  /\ memo' = IF memo.set /\ memo.inst = inst THEN NoMemo
             ELSE IF memo.set /\ memo.inst > inst THEN [memo EXCEPT !.inst = @ - 1]
             ELSE memo
  /\ UNCHANGED n_discretizations

Next ==
  \/ \E config \in MoveItConfigs : CreateMoveItIKSolver(config, TRUE)
  \/ \E config \in DiscretizedConfigs : CreateDiscretizedMoveItIKSolver(config, TRUE)
  \/ \E inst \in 1..MaxSolvers, target \in Targets, seed \in Seeds :
       SolveIK(inst, target, seed)
  \/ \E inst \in 1..MaxSolvers, target \in Targets, seed \in Seeds :
       DiscretizedSolveIK(inst, target, seed)
  \/ \E inst \in 1..MaxSolvers : ReleaseSolver(inst)

Spec == Init /\ [][Next]_vars

\* The factories on their own: the first create call of a process, over
\* every configuration and with or without a robot model.
NextFactory ==
  \/ \E config \in MoveItFactoryConfigs, model \in BOOLEAN :
       last.op = "none" /\ CreateMoveItIKSolver(config, model)
  \/ \E config \in DiscretizedFactoryConfigs, model \in BOOLEAN :
       last.op = "none" /\ CreateDiscretizedMoveItIKSolver(config, model)

SpecFactory == Init /\ [][NextFactory]_vars

(***************************************************************************)
(* Properties                                                              *)
(***************************************************************************)
Discretized == "DiscretizedMoveItIKSolver"

\* the solver object the last solveIK call was made on, as it was before the call
Callee == last.before[last.inst]

\* the last call was a solveIK call of this kind of solver that returned
Returned(kind) ==
  last.op = "solveIK" /\ last.kind = kind /\ last.thrown = "none"

\* the solver the last create call returned
CreatedSolver == solvers[Len(solvers)]

\* the last call was a create of this kind that returned a solver
CreateReturned == last.op = "create" /\ last.thrown = "none"

\* C1: every solveIK call of a discretized solver makes N = floor(2*pi / dt)
\* base attempts, dt being the step of the solver called, whichever solvers
\* were called before it.
C1_AttemptsFollowOwnStep ==
  (Returned(Discretized) /\ Callee.dt_ > 0)
    => Len(last.attempts) = TwoPi \div Callee.dt_

\* C2: the step of every solver the discretized factory builds lies in
\* (0, pi], whatever the raw discretization_angle was.
C2_StepInHalfOpenInterval ==
  \A k \in 1..Len(solvers) :
    solvers[k].kind = Discretized => (0 < solvers[k].dt_ /\ solvers[k].dt_ <= M_PI)

\* C3: with collision_mesh_filename configured, the obstacle is added in the
\* frame collision_mesh_frame names when that option is present, and in the
\* chain's base frame only when it is absent.
C3_MeshFrameOption ==
  (CreateReturned /\ Has(last.config, "collision_mesh_filename"))
    => CreatedSolver.scene.object =
         IF Has(last.config, "collision_mesh_frame")
         THEN last.config.collision_mesh_frame
         ELSE getKinematicBaseFrame(CreatedSolver)

\* C4: a discretized solveIK call makes the attempts i = 0..N-1 for
\* N = floor(2*pi / dt), each from the caller's seed, and returns the
\* solutions of the successful attempts in increasing order of i.
C4_AllSamplesInOrder ==
  (Returned(Discretized) /\ Callee.dt_ > 0)
    => LET N == TwoPi \div Callee.dt_
           accepted == SelectSeq(last.attempts, LAMBDA a : a.outcome = "accepted")
       IN  /\ Len(last.attempts) = N
           /\ \A k \in 1..Len(last.attempts) :
                /\ last.attempts[k].i = k - 1
                /\ last.attempts[k].seed = last.seed
                /\ last.attempts[k].target = Rotate(last.target, (k - 1) * Callee.dt_)
           /\ Len(last.ret) = Len(accepted)
           /\ Len(last.ret) <= N
           /\ \A k \in 1..Len(last.ret) : last.ret[k] = accepted[k].solution

\* C5: a collaborator failing during an attempt makes that attempt yield no
\* solution: the call still returns, the base solver returns the empty
\* sequence, and the discretized solver goes on to the remaining attempts
\* and keeps what it had collected.
C5_FailureIsNoSolution ==
  (last.op = "solveIK"
     /\ \E k \in 1..Len(last.attempts) : last.attempts[k].outcome = "thrown")
    => /\ last.thrown = "none"
       /\ last.kind = "MoveItIKSolver" => last.ret = <<>>
       /\ last.kind = Discretized =>
            /\ Len(last.attempts) = n_discretizations.value
            /\ Len(last.ret) =
                 Cardinality({k \in 1..Len(last.attempts) :
                                last.attempts[k].outcome = "accepted"})

\* C6: the base solver returns the one configuration the IK routine
\* accepted, with one entry per active joint, and the empty sequence when
\* the routine found or accepted none.
C6_ZeroOrOneSolution ==
  Returned("MoveItIKSolver")
    => LET a == last.attempts[1]
       IN  /\ Len(last.ret) <= 1
           /\ a.outcome = "accepted" =>
                /\ last.ret = <<a.solution>>
                /\ Len(last.ret[1]) = Len(getJointNames(Callee))
           /\ a.outcome # "accepted" => last.ret = <<>>

C6_Witness ==
  /\ Returned("MoveItIKSolver")
  /\ Len(last.ret) = 1
  /\ Len(last.attempts[1].checks) = 2
  /\ ~last.attempts[1].checks[1].valid

\* C7: create raises, returns no solver and has applied no collision mesh
\* or touch link when the robot model is unavailable or the planning group
\* is not in the robot model.
C7_ConstructionErrorBeforeOptions ==
  (last.op = "create"
     /\ (~last.model \/ last.config.planning_group \notin PlanningGroups))
    => /\ last.thrown \in {"model", "group"}
       /\ last.applied = <<>>
       /\ solvers = last.before

C7_Witness ==
  /\ last.op = "create"
  /\ last.model
  /\ last.config.planning_group \notin PlanningGroups
  /\ Has(last.config, "collision_mesh_filename")
  /\ Has(last.config, "touch_links")
  /\ last.thrown = "group"

\* C8: the discretized factory warns whenever the raw discretization_angle
\* differs by more than the tolerance from the step it uses.
C8_WarnsWhenAngleChanged ==
  (last.op = "create" /\ last.kind = Discretized /\ last.model)
    => LET raw == last.config.discretization_angle
           used == clamp(std_abs(raw), 0, M_PI)
       IN  /\ std_abs(raw - used) > Tolerance => last.warned
           /\ CreateReturned => CreatedSolver.dt_ = used

\* C9: the validity callback accepts a candidate exactly when it is not
\* colliding and its distance is at least the threshold, so every returned
\* configuration is collision free and at least the threshold away.
C9_ValidIffClearOfObstacles ==
  last.op = "solveIK"
    => /\ \A k \in 1..Len(last.attempts) :
            \A c \in 1..Len(last.attempts[k].checks) :
              LET check == last.attempts[k].checks[c]
              IN  check.valid <=>
                    (~check.colliding /\ check.distance >= Callee.distance_threshold)
       /\ \A k \in 1..Len(last.ret) :
            /\ ~isStateColliding(Callee.scene, last.ret[k])
            /\ distanceToCollision(Callee.scene, last.ret[k])
                 >= Callee.distance_threshold

C9_Witness ==
  /\ last.op = "solveIK"
  /\ Len(last.ret) >= 1
  /\ distanceToCollision(Callee.scene, last.ret[1]) = Callee.distance_threshold
  /\ Callee.distance_threshold > 0
  /\ \E k \in 1..Len(last.attempts) :
       \E c \in 1..Len(last.attempts[k].checks) :
         last.attempts[k].checks[c].colliding

\* C10: solveIK leaves every solver's scene and configuration as they were,
\* and a repeated call on the same solver with the same target and seed
\* returns what the first one returned.
C10_SolveIKReadsOnly ==
  last.op = "solveIK"
    => /\ solvers = last.before
       /\ SameCall(memo, last) =>
            (memo.thrown = last.thrown /\ memo.ret = last.ret)

C10_Witness ==
  /\ last.op = "solveIK"
  /\ last.kind = Discretized
  /\ SameCall(memo, last)
  /\ memo.again
  /\ Len(last.ret) >= 2

====
